---- MODULE Spec2Model ----
(***************************************************************************)
(* Model of the Codacy coding-standard generator: the orchestrator         *)
(* (src/main.py: create_standard, process_patterns) driving the API client *)
(* (src/api/codacy.py: CodacyAPI) against a remote service.                *)
(* The run starts with the construction of the settings                    *)
(* (src/config/settings.py: Settings) from the process environment.        *)
(*                                                                         *)
(* One step of the model is one step of the sequential program between two *)
(* HTTP requests.  The remote service is the environment: what it holds    *)
(* (the answer to the create call, the tool catalog, each tool's pattern   *)
(* pages) is fixed when the run starts; whether a given request fails is    *)
(* decided request by request.                                             *)
(*                                                                         *)
(* Python values: a dict is a function on its keys (EmptyDict is {}), a     *)
(* list is a sequence, None is the value None below, identifiers and       *)
(* cursors are strings, and a severity is a sequence of characters so that *)
(* str.lower() is computed character by character.                         *)
(***************************************************************************)
EXTENDS Integers, Sequences, FiniteSets, TLC

VARIABLES
    env,                 \* the process environment (after load_dotenv)
    settings,            \* config.settings.settings; {} until it is constructed
    remote,              \* what the remote service holds for this run
    dry_run,             \* the --dry-run flag
    pc,                  \* position of create_standard
    standard_id,         \* create_standard: standard_id
    tools,               \* create_standard: tools
    tool_idx,            \* create_standard: position of `for tool in tools`
    patterns,            \* get_patterns: patterns
    cursor,              \* get_patterns: cursor
    served,              \* pages the remote has served to the current get_patterns
    patterns_to_update,  \* process_patterns: patterns_to_update
    i,                   \* process_patterns: i, the offset of the next batch
    calls,               \* every HTTP request issued so far, in order
    logs,                \* every record logged at INFO or above, in order
    exit_code            \* process exit status; -1 while running

vars == <<env, settings, remote, dry_run, pc, standard_id, tools, tool_idx, patterns, cursor,
          served, patterns_to_update, i, calls, logs, exit_code>>

-----------------------------------------------------------------------------
(* Bounds of the model *)

MaxTools == 3
MaxPages == 2
MaxBulkPages == 2

(* Constants of the program *)

BATCH_SIZE == 500
SLEEP_SECS == 2
PAGE_LIMIT == 100

-----------------------------------------------------------------------------
(* Python values *)

None == "None"
EmptyDict == <<>>
Get(d, k, default) == IF k \in DOMAIN d THEN d[k] ELSE default
\* faulty variant: `is None` in place of `not`
FalsyNoneOnly(v) == v = None

\* not v, for v a string or None
Falsy(v) == v = None \/ v = ""
Min(a, b) == IF a < b THEN a ELSE b

UpperToLower ==
    [c \in {"A", "B", "C", "D", "E", "F", "G", "H", "I", "J", "K", "L", "M",
            "N", "O", "P", "Q", "R", "S", "T", "U", "V", "W", "X", "Y", "Z"} |->
        CASE c = "A" -> "a" [] c = "B" -> "b" [] c = "C" -> "c" [] c = "D" -> "d"
          [] c = "E" -> "e" [] c = "F" -> "f" [] c = "G" -> "g" [] c = "H" -> "h"
          [] c = "I" -> "i" [] c = "J" -> "j" [] c = "K" -> "k" [] c = "L" -> "l"
          [] c = "M" -> "m" [] c = "N" -> "n" [] c = "O" -> "o" [] c = "P" -> "p"
          [] c = "Q" -> "q" [] c = "R" -> "r" [] c = "S" -> "s" [] c = "T" -> "t"
          [] c = "U" -> "u" [] c = "V" -> "v" [] c = "W" -> "w" [] c = "X" -> "x"
          [] c = "Y" -> "y" [] c = "Z" -> "z"]

LowerChar(c) == IF c \in DOMAIN UpperToLower THEN UpperToLower[c] ELSE c

\* faulty variant: the severity compared as received, without lower()
LowerIdentity(s) == s

\* str.lower()
Lower(s) == IF s = <<>> THEN <<>> ELSE [k \in 1..Len(s) |-> LowerChar(s[k])]

-----------------------------------------------------------------------------
(* process_patterns: the filter and the batches *)

SEV_INFO == <<"i", "n", "f", "o">>
SEV_MINOR == <<"m", "i", "n", "o", "r">>

PatternDef(pattern) == Get(pattern, "patternDefinition", EmptyDict)
PatternId(pattern) == Get(PatternDef(pattern), "id", None)
Severity(pattern) == Lower(Get(PatternDef(pattern), "severityLevel", <<>>))

\* severity in ['info', 'minor']
Selected(severity) == severity \in {SEV_INFO, SEV_MINOR}

DisableEntry(pattern) == [id |-> PatternId(pattern), enabled |-> FALSE]

SelectedPatterns(ps) == SelectSeq(ps, LAMBDA p : Selected(Severity(p)))

\* patterns_to_update once the loop over patterns has ended
PatternsToUpdate(ps) ==
    LET sel == SelectedPatterns(ps)
    IN  IF sel = <<>> THEN <<>> ELSE [k \in 1..Len(sel) |-> DisableEntry(sel[k])]

\* faulty variant: the slice one entry short, patterns_to_update[i:i + 499]
BatchShort(lst, off) == SubSeq(lst, off + 1, Min(off + BATCH_SIZE - 1, Len(lst)))

\* patterns_to_update[i:i + 500]
Batch(lst, off) == SubSeq(lst, off + 1, Min(off + BATCH_SIZE, Len(lst)))

\* the next value of i in range(0, len(patterns_to_update), 500)
NextOffset(off) == off + BATCH_SIZE

\* whether range(0, len(lst), 500) yields the offset off
InRange(lst, off) == off < Len(lst)

-----------------------------------------------------------------------------
(* get_patterns: one page *)

Pagination(response) == Get(response, "pagination", EmptyDict)

\* faulty variant: has_next_page = bool(pagination.get('cursor'))
HasNextPageTruthy(response) ==
    /\ "cursor" \in DOMAIN Pagination(response)
    /\ Pagination(response)["cursor"] # ""

\* has_next_page = 'cursor' in pagination
HasNextPage(response) == "cursor" \in DOMAIN Pagination(response)

\* faulty variant: patterns = response.get('data', [])
ExtendOverwriting(ps, response) == Get(response, "data", <<>>)

\* patterns.extend(response.get('data', []))
Extend(ps, response) == ps \o Get(response, "data", <<>>)

\* params = {'limit': limit}; if cursor: params['cursor'] = cursor
Params(cur) ==
    IF cur # "" THEN [limit |-> PAGE_LIMIT, cursor |-> cur] ELSE [limit |-> PAGE_LIMIT]

-----------------------------------------------------------------------------
(* The remote service: what it can hold *)

S_Minor == <<"M", "i", "n", "o", "r">>
S_MINOR == <<"M", "I", "N", "O", "R">>
S_Info == <<"I", "n", "f", "o">>
S_INFO == <<"I", "N", "F", "O">>
S_major == <<"m", "a", "j", "o", "r">>
S_Major == <<"M", "a", "j", "o", "r">>
S_critical == <<"c", "r", "i", "t", "i", "c", "a", "l">>
S_minors == <<"m", "i", "n", "o", "r", "s">>

Pat(id, sev) == [patternDefinition |-> [id |-> id, severityLevel |-> sev]]

DataA == <<Pat("a1", S_Minor), Pat("a2", S_major), Pat("a3", S_MINOR)>>
DataB == <<Pat("b1", S_critical),
           [patternDefinition |-> [id |-> "b2"]],
           Pat("b3", S_Info),
           [enabled |-> TRUE],
           Pat("b5", S_minors)>>
DataC == <<Pat("c1", SEV_MINOR), [patternDefinition |-> [severityLevel |-> S_INFO]]>>
DataD == <<Pat("d1", S_Major), Pat("d2", S_critical)>>

\* n patterns, all of them low-severity, with identifiers base+1 .. base+n
BulkData(n, base) ==
    [k \in 1..n |-> Pat(ToString(base + k), IF k % 2 = 1 THEN S_Minor ELSE S_INFO)]

PaginationKinds == {"absent", "no_cursor", "cursor", "empty_cursor"}

PaginationOf(kind) ==
    CASE kind = "no_cursor" -> [limit |-> PAGE_LIMIT]
      [] kind = "cursor" -> [limit |-> PAGE_LIMIT, cursor |-> "c1"]
      [] kind = "empty_cursor" -> [limit |-> PAGE_LIMIT, cursor |-> ""]

Page(data, kind) ==
    IF kind = "absent" THEN [data |-> data]
    ELSE [data |-> data, pagination |-> PaginationOf(kind)]

IsLastPage(page) == "cursor" \notin DOMAIN Get(page, "pagination", EmptyDict)

\* a pattern store is the sequence of pages the remote serves for one tool; the
\* remote has finitely many pages, so the last one carries no cursor
StoresOver(pageSet, maxLen) ==
    UNION {{s \in [1..n -> pageSet] : IsLastPage(s[n])} : n \in 1..maxLen}

SmallPages ==
    {Page(d, k) : d \in {DataA, DataB}, k \in PaginationKinds}
        \cup {EmptyDict, [pagination |-> PaginationOf("cursor")]}

SmallStores == StoresOver(SmallPages, MaxPages)

\* the pattern store of every tool of a catalog of several tools: two pages
CatalogStores ==
    {<<Page(DataC, "cursor"), Page(DataB, "no_cursor")>>}

BulkSizes == {2, BATCH_SIZE, BATCH_SIZE + 100}

BulkStore(sizes) ==
    [k \in 1..Len(sizes) |->
        Page(BulkData(sizes[k], 10000 * k),
             IF k < Len(sizes) THEN "cursor" ELSE "absent")]

BulkStores ==
    UNION {{BulkStore(sizes) : sizes \in [1..n -> BulkSizes]} : n \in 1..MaxBulkPages}

Uuid(k) == "tool-" \o ToString(k)
Name(k) == "Tool " \o ToString(k)

CatalogEntries ==
    {[kind |-> "no_uuid"], [kind |-> "no_name"]}
        \cup {[kind |-> "ok", store |-> s] : s \in CatalogStores}

Tool(k, entry) ==
    CASE entry.kind = "ok" -> [uuid |-> Uuid(k), name |-> Name(k)]
      [] entry.kind = "no_uuid" -> [name |-> Name(k)]
      [] entry.kind = "no_name" -> [uuid |-> Uuid(k)]

GoodCreate == [data |-> [id |-> "cs-1", name |-> "my-standard"]]

CreateResponses ==
    {GoodCreate, EmptyDict, [data |-> [name |-> "my-standard"]], [data |-> [id |-> ""]]}

\* the remote whose catalog is the entries es
Remote(create, es) ==
    [standard |-> create,
     tools |-> [data |-> IF es = <<>> THEN <<>>
                          ELSE [k \in 1..Len(es) |-> Tool(k, es[k])]],
     patterns |-> [u \in {Uuid(k) : k \in {j \in 1..Len(es) : es[j].kind = "ok"}} |->
                      es[CHOOSE k \in 1..Len(es) : Uuid(k) = u].store]]

OneTool(store) == <<[kind |-> "ok", store |-> store]>>

Remotes ==
    \* catalogs of up to MaxTools tools, complete or not
    {Remote(GoodCreate, es) : es \in UNION {[1..n -> CatalogEntries] : n \in 0..MaxTools}}
    \* one tool, every short sequence of pages
    \cup {Remote(GoodCreate, OneTool(s)) : s \in SmallStores}
    \* one tool, long pattern lists
    \cup {Remote(GoodCreate, OneTool(s)) : s \in BulkStores}
    \* every answer to the create call
    \cup {Remote(c, OneTool(<<Page(DataA, "absent")>>)) : c \in CreateResponses}
    \* a catalog answer without `data`
    \cup {[standard |-> GoodCreate, tools |-> EmptyDict, patterns |-> EmptyDict]}

\* how a request can fail in _make_request: "http" is an error status whose body
\* decodes as JSON (two ERROR lines, the RequestException re-raised); "transport"
\* is every failure without such a body: no response at all (e.response is
\* None), or a body on which e.response.json() itself raises.  Either way one
\* ERROR line is logged and an Exception leaves _make_request.
FailKinds == {"transport", "http"}

-----------------------------------------------------------------------------
(* Logging *)

Info(msg, arg) == [level |-> "INFO", msg |-> msg, arg |-> arg]
Warning(msg, arg) == [level |-> "WARNING", msg |-> msg, arg |-> arg]
Error(msg, arg) == [level |-> "ERROR", msg |-> msg, arg |-> arg]

\* _make_request's except clause
ApiErrorLogs(kind) ==
    IF kind = "http"
    THEN <<Error("API request failed", kind), Error("Response", kind)>>
    ELSE <<Error("API request failed", kind)>>

\* faulty variant: the [DRY RUN] line logged outside the severity test
DryRunDisableLogsAll(ps) ==
    IF ps = <<>> THEN <<>>
    ELSE [k \in 1..Len(ps) |->
             [level |-> "INFO", msg |-> "[DRY RUN] Would disable pattern",
              arg |-> PatternId(ps[k]), severity |-> Severity(ps[k])]]

\* the [DRY RUN] lines of the loop over patterns
DryRunDisableLogs(ps) ==
    LET sel == SelectedPatterns(ps)
    IN  IF sel = <<>> THEN <<>>
        ELSE [k \in 1..Len(sel) |->
                 [level |-> "INFO", msg |-> "[DRY RUN] Would disable pattern",
                  arg |-> PatternId(sel[k]), severity |-> Severity(sel[k])]]

-----------------------------------------------------------------------------
(* config/settings.py *)

RequiredKeys == {"CODACY_API_TOKEN", "CODACY_ORG_NAME", "CODACY_PROVIDER"}
OptionalKeys == {"CODACY_API_URL", "LOG_LEVEL"}

DEFAULT_API_URL == "https://app.codacy.com"
DEFAULT_LOG_LEVEL == "INFO"

\* a variable is unset, set to the empty string, or set to a value
EnvValues == {"", "set"}
Envs == UNION {[K -> EnvValues] : K \in SUBSET (RequiredKeys \cup OptionalKeys)}

GoodEnv == [key \in RequiredKeys |-> "set"]

\* os.getenv(key, default)
GetEnv(e, key, default) == Get(e, key, default)

\* faulty variant: `value is None` in place of `not value`
MissingUnsetOnly(e, key) == GetEnv(e, key, None) = None

\* _get_required_env raises
Missing(e, key) == Falsy(GetEnv(e, key, None))

\* the attributes of a constructed Settings
LoadedSettings(e) ==
    [api_token |-> e["CODACY_API_TOKEN"],
     org_name  |-> e["CODACY_ORG_NAME"],
     provider  |-> e["CODACY_PROVIDER"],
     api_url   |-> GetEnv(e, "CODACY_API_URL", DEFAULT_API_URL),
     log_level |-> GetEnv(e, "LOG_LEVEL", DEFAULT_LOG_LEVEL)]

-----------------------------------------------------------------------------
(* create_standard *)

project_name == "my-standard"

\* Every environment is run against one small remote, and every remote under
\* one environment that loads.
Init ==
    /\ \/ env \in Envs /\ remote = Remote(GoodCreate, OneTool(<<Page(DataA, "absent")>>))
       \/ env = GoodEnv /\ remote \in Remotes
    /\ settings = EmptyDict
    /\ dry_run \in BOOLEAN
    /\ pc = "load"
    /\ standard_id = None
    /\ tools = <<>>
    /\ tool_idx = 0
    /\ patterns = <<>>
    /\ cursor = ""
    /\ served = 0
    /\ patterns_to_update = <<>>
    /\ i = 0
    /\ calls = <<>>
    /\ logs = <<>>
    /\ exit_code = -1

\* the locals of process_patterns and get_patterns go out of scope
DropLocals ==
    /\ patterns' = <<>>
    /\ cursor' = ""
    /\ served' = 0
    /\ patterns_to_update' = <<>>
    /\ i' = 0

\* faulty variant: the outer handler logs and returns, without sys.exit(1)
AbortExitZero(lg) ==
    /\ logs' = Append(lg, Error("Failed to create coding standard", ""))
    /\ pc' = "done"
    /\ exit_code' = 0
    /\ tool_idx' = tool_idx
    /\ DropLocals

\* except Exception (outer): logger.error(...); sys.exit(1)
Abort(lg) ==
    /\ logs' = Append(lg, Error("Failed to create coding standard", ""))
    /\ pc' = "done"
    /\ exit_code' = 1
    /\ tool_idx' = tool_idx
    /\ DropLocals

\* `for tool in tools` takes the next tool; when none is left the loop ends and
\* the dry run is over, or promote_draft comes next
NextTool(lg) ==
    /\ DropLocals
    /\ IF tool_idx < Len(tools')
       THEN /\ tool_idx' = tool_idx + 1
            /\ pc' = "tool"
            /\ logs' = lg
            /\ exit_code' = exit_code
       ELSE /\ tool_idx' = tool_idx
            /\ IF dry_run
               THEN /\ pc' = "done"
                    /\ logs' = Append(lg, Info("Successfully created and configured coding standard", ""))
                    /\ exit_code' = 0
               ELSE /\ pc' = "promote"
                    /\ logs' = lg
                    /\ exit_code' = exit_code

\* faulty variant: no handler inside the loop, the failure reaches the outer one
ToolFailedAborting(lg) ==
    /\ tools' = tools
    /\ Abort(lg)

\* faulty variant: the per-tool handler continues without logging
ToolFailedSilent(lg) ==
    /\ tools' = tools
    /\ NextTool(lg)

\* faulty variant: a failed page request ends get_patterns with the pages
\* fetched so far instead of raising
ToolFailedKeepingPages(lg) ==
    /\ tools' = tools
    /\ IF pc = "fetch"
       THEN /\ pc' = "filter"
            /\ logs' = lg
            /\ UNCHANGED <<tool_idx, patterns, cursor, served, patterns_to_update, i,
                           exit_code>>
       ELSE NextTool(Append(lg, Error("Error processing tool", Get(tools[tool_idx], "name", None))))

\* except Exception (per tool): logger.error(...); continue
ToolFailed(lg) ==
    /\ tools' = tools
    /\ NextTool(Append(lg, Error("Error processing tool", Get(tools[tool_idx], "name", None))))

\* faulty variant: standard_id = response.get("data", {}).get("name")
CreatedIdFromName(response) == Get(Get(response, "data", EmptyDict), "name", None)

\* standard_id = response.get("data", {}).get("id")
CreatedId(response) == Get(Get(response, "data", EmptyDict), "id", None)

\* `settings = Settings()` runs when main.py imports the module, before
\* anything else; a ValueError there is not caught: the interpreter prints the
\* traceback and exits with status 1, and the logger is never reached.
LoadSettings ==
    /\ pc = "load"
    /\ UNCHANGED <<env, remote, dry_run, standard_id, tools, tool_idx, patterns, cursor,
                   served, patterns_to_update, i, calls, logs>>
    /\ IF \E key \in RequiredKeys : Missing(env, key)
         THEN /\ pc' = "done"
              /\ exit_code' = 1
              /\ UNCHANGED settings
         ELSE /\ settings' = LoadedSettings(env)
              /\ pc' = "create"
              /\ UNCHANGED exit_code

CreateStandard ==
    /\ pc = "create"
    /\ UNCHANGED <<env, settings, remote, dry_run, tools>>
    /\ LET lg == Append(logs, Info("Creating new coding standard", project_name))
           call == [op |-> "create_coding_standard", name |-> project_name]
       IN  \/ /\ dry_run
              /\ standard_id' = "dry-run-id"
              /\ logs' = Append(lg, Info("[DRY RUN] Would create new coding standard", ""))
              /\ pc' = "tools"
              /\ UNCHANGED <<tool_idx, patterns, cursor, served, patterns_to_update, i,
                             calls, exit_code>>
           \/ /\ ~dry_run
              /\ \E kind \in FailKinds :
                    /\ calls' = Append(calls, call @@ [result |-> kind])
                    /\ standard_id' = standard_id
                    /\ Abort(lg \o ApiErrorLogs(kind))
           \/ /\ ~dry_run
              /\ calls' = Append(calls, call @@ [result |-> "ok", response |-> remote.standard])
              /\ IF Falsy(CreatedId(remote.standard))
                 THEN /\ standard_id' = standard_id
                      /\ Abort(lg)
                 ELSE /\ standard_id' = CreatedId(remote.standard)
                      /\ logs' = Append(lg, Info("Created coding standard with ID", CreatedId(remote.standard)))
                      /\ pc' = "tools"
                      /\ UNCHANGED <<tool_idx, patterns, cursor, served, patterns_to_update,
                                     i, exit_code>>

\* faulty variant: the empty catalog is not checked for
NoToolsNever(ts) == FALSE

\* if not tools
NoTools(ts) == ts = <<>>

GetAvailableTools ==
    /\ pc = "tools"
    /\ UNCHANGED <<env, settings, remote, dry_run, standard_id>>
    /\ LET lg == Append(logs, Info("Fetching available tools...", ""))
           call == [op |-> "get_available_tools"]
       IN  \/ \E kind \in FailKinds :
                 /\ calls' = Append(calls, call @@ [result |-> kind])
                 /\ tools' = tools
                 /\ Abort(lg \o ApiErrorLogs(kind))
           \/ /\ calls' = Append(calls, call @@ [result |-> "ok", response |-> remote.tools])
              /\ tools' = Get(remote.tools, "data", <<>>)
              /\ IF NoTools(tools')
                 THEN /\ logs' = Append(lg, Warning("No tools found", ""))
                      /\ pc' = "done"
                      /\ exit_code' = 0
                      /\ tool_idx' = tool_idx
                      /\ DropLocals
                 ELSE NextTool(lg)

\* if not tool_uuid or not tool_name
\* faulty variant: only the uuid is tested
IncompleteUuidOnly(tool) == Falsy(Get(tool, "uuid", None))

\* not tool_uuid or not tool_name
Incomplete(tool) == Falsy(Get(tool, "uuid", None)) \/ Falsy(Get(tool, "name", None))

\* the body of `for tool in tools` up to the call of process_patterns
ProcessTool ==
    /\ pc = "tool"
    /\ UNCHANGED <<env, settings, remote, dry_run, standard_id>>
    /\ LET tool == tools[tool_idx]
           tool_uuid == Get(tool, "uuid", None)
           tool_name == Get(tool, "name", None)
           lg == Append(logs, Info("Processing tool", tool_name))
           call == [op |-> "enable_tool", standard_id |-> standard_id,
                    tool_uuid |-> tool_uuid,
                    body |-> [enabled |-> TRUE, patterns |-> <<>>]]
           fetch == /\ pc' = "fetch"
                    /\ UNCHANGED <<tools, tool_idx, patterns, cursor, served,
                                   patterns_to_update, i, exit_code>>
       IN  \/ /\ Incomplete(tool)
              /\ UNCHANGED <<tools, calls>>
              /\ NextTool(Append(logs, Warning("Skipping tool with incomplete data", "")))
           \/ /\ ~Incomplete(tool)
              /\ dry_run
              /\ UNCHANGED calls
              /\ logs' = Append(lg, Info("[DRY RUN] Would enable tool", tool_name))
              /\ fetch
           \/ /\ ~Incomplete(tool)
              /\ ~dry_run
              /\ \E kind \in FailKinds :
                    /\ calls' = Append(calls, call @@ [result |-> kind, slept |-> 0])
                    /\ ToolFailed(lg \o ApiErrorLogs(kind))
           \/ /\ ~Incomplete(tool)
              /\ ~dry_run
              /\ calls' = Append(calls, call @@ [result |-> "ok", slept |-> SLEEP_SECS])
              /\ logs' = Append(lg, Info("Enabled tool", tool_name))
              /\ fetch

\* the page the remote serves to the next request of the current get_patterns
NextPage ==
    LET store == remote.patterns[tools[tool_idx].uuid]
    IN  IF served < Len(store) THEN store[served + 1] ELSE [data |-> <<>>]

\* faulty variant: if patterns_to_update
ShouldUpdateIgnoringDryRun(to_update, dry) == to_update # <<>>

\* if patterns_to_update and not dry_run
ShouldUpdate(to_update, dry) == to_update # <<>> /\ ~dry

\* one iteration of `while has_next_page` in get_patterns
FetchPage ==
    /\ pc = "fetch"
    /\ UNCHANGED <<env, settings, remote, dry_run, standard_id>>
    /\ LET tool_uuid == tools[tool_idx].uuid
           call == [op |-> "get_patterns", standard_id |-> standard_id,
                    tool_uuid |-> tool_uuid, params |-> Params(cursor)]
       IN  \/ \E kind \in FailKinds :
                 /\ calls' = Append(calls, call @@ [result |-> kind])
                 /\ ToolFailed(logs \o ApiErrorLogs(kind))
           \/ /\ calls' = Append(calls, call @@ [result |-> "ok", response |-> NextPage])
              /\ patterns' = Extend(patterns, NextPage)
              /\ served' = served + 1
              /\ IF HasNextPage(NextPage)
                 THEN /\ cursor' = Pagination(NextPage)["cursor"]
                      /\ pc' = pc
                 ELSE /\ cursor' = cursor
                      /\ pc' = "filter"
              /\ UNCHANGED <<tools, tool_idx, patterns_to_update, i, logs, exit_code>>

\* process_patterns from the return of get_patterns to the first batch
FilterPatterns ==
    /\ pc = "filter"
    /\ UNCHANGED <<env, settings, remote, dry_run, standard_id, calls>>
    /\ LET to_update == PatternsToUpdate(patterns)
           lg == IF dry_run THEN logs \o DryRunDisableLogs(patterns) ELSE logs
       IN  IF ShouldUpdate(to_update, dry_run)
           THEN /\ pc' = "update"
                /\ patterns_to_update' = to_update
                /\ i' = 0
                /\ logs' = lg
                /\ UNCHANGED <<tools, tool_idx, patterns, cursor, served, exit_code>>
           ELSE /\ tools' = tools
                /\ NextTool(lg)

\* one iteration of `for i in range(0, len(patterns_to_update), 500)`
UpdateBatch ==
    /\ pc = "update"
    /\ UNCHANGED <<env, settings, remote, dry_run, standard_id>>
    /\ LET batch == Batch(patterns_to_update, i)
           call == [op |-> "update_patterns", standard_id |-> standard_id,
                    tool_uuid |-> tools[tool_idx].uuid,
                    body |-> [enabled |-> TRUE, patterns |-> batch]]
           lg == Append(logs, Info("Disabled minor patterns", ToString(Len(batch))))
       IN  \/ \E kind \in FailKinds :
                 /\ calls' = Append(calls, call @@ [result |-> kind, slept |-> 0])
                 /\ ToolFailed(logs \o ApiErrorLogs(kind))
           \/ /\ calls' = Append(calls, call @@ [result |-> "ok", slept |-> SLEEP_SECS])
              /\ IF InRange(patterns_to_update, NextOffset(i))
                 THEN /\ i' = NextOffset(i)
                      /\ logs' = lg
                      /\ UNCHANGED <<pc, tools, tool_idx, patterns, cursor, served,
                                     patterns_to_update, exit_code>>
                 ELSE /\ tools' = tools
                      /\ NextTool(lg)

PromoteDraft ==
    /\ pc = "promote"
    /\ UNCHANGED <<env, settings, remote, dry_run, standard_id, tools>>
    /\ LET lg == Append(logs, Info("Promoting coding standard...", ""))
           call == [op |-> "promote_draft", standard_id |-> standard_id]
       IN  \/ \E kind \in FailKinds :
                 /\ calls' = Append(calls, call @@ [result |-> kind])
                 /\ Abort(lg \o ApiErrorLogs(kind))
           \/ /\ calls' = Append(calls, call @@ [result |-> "ok"])
              /\ logs' = lg
              /\ pc' = "set_default"
              /\ UNCHANGED <<tool_idx, patterns, cursor, served, patterns_to_update, i,
                             exit_code>>

SetDefault ==
    /\ pc = "set_default"
    /\ UNCHANGED <<env, settings, remote, dry_run, standard_id, tools>>
    /\ LET lg == Append(logs, Info("Setting as default coding standard...", ""))
           call == [op |-> "set_default", standard_id |-> standard_id,
                    body |-> [isDefault |-> TRUE]]
       IN  \/ \E kind \in FailKinds :
                 /\ calls' = Append(calls, call @@ [result |-> kind])
                 /\ Abort(lg \o ApiErrorLogs(kind))
           \/ /\ calls' = Append(calls, call @@ [result |-> "ok"])
              /\ logs' = Append(lg, Info("Successfully created and configured coding standard", ""))
              /\ pc' = "done"
              /\ exit_code' = 0
              /\ UNCHANGED <<tool_idx, patterns, cursor, served, patterns_to_update, i>>

Next ==
    \/ LoadSettings
    \/ CreateStandard
    \/ GetAvailableTools
    \/ ProcessTool
    \/ FetchPage
    \/ FilterPatterns
    \/ UpdateBatch
    \/ PromoteDraft
    \/ SetDefault

Spec == Init /\ [][Next]_vars

-----------------------------------------------------------------------------
(* Vocabulary of the properties: what the recorded requests show *)

MutatingOps ==
    {"create_coding_standard", "enable_tool", "update_patterns", "promote_draft",
     "set_default"}
ReadOps == {"get_available_tools", "get_patterns"}
ToolOps == {"enable_tool", "get_patterns", "update_patterns"}

Ok(c) == c.result = "ok"

\* the requests of one operation for one tool, in the order issued
CallsFor(op, uuid) == SelectSeq(calls, LAMBDA c : c.op = op /\ c.tool_uuid = uuid)

AllOk(cs) == \A k \in DOMAIN cs : Ok(cs[k])

\* the catalog entries that carry both a uuid and a name
CompleteTools == {k \in DOMAIN tools : {"uuid", "name"} \subseteq DOMAIN tools[k]}

\* the tools the loop has left behind
LoopOver == pc \in {"promote", "set_default", "done"}
Finished(k) == k < tool_idx \/ (k <= tool_idx /\ LoopOver)

RespHasCursor(c) ==
    /\ "pagination" \in DOMAIN c.response
    /\ "cursor" \in DOMAIN c.response.pagination

RespData(c) == IF "data" \in DOMAIN c.response THEN c.response.data ELSE <<>>

RECURSIVE ConcatAll(_)
ConcatAll(seqs) ==
    IF seqs = <<>> THEN <<>> ELSE ConcatAll(SubSeq(seqs, 1, Len(seqs) - 1)) \o seqs[Len(seqs)]

RECURSIVE SumAll(_)
SumAll(ns) == IF ns = <<>> THEN 0 ELSE SumAll(SubSeq(ns, 1, Len(ns) - 1)) + ns[Len(ns)]

MapSeq(sq, F(_)) == IF sq = <<>> THEN <<>> ELSE [k \in 1..Len(sq) |-> F(sq[k])]

\* the data arrays of the successful pattern pages of a tool, concatenated
FetchedFor(uuid) ==
    ConcatAll(MapSeq(SelectSeq(CallsFor("get_patterns", uuid), Ok), RespData))

\* get_patterns has returned for the tool: every page arrived, the last without cursor
FetchReturned(uuid) ==
    LET pages == CallsFor("get_patterns", uuid)
    IN  /\ pages # <<>>
        /\ AllOk(pages)
        /\ ~RespHasCursor(pages[Len(pages)])

\* the entries of the update requests of a tool, concatenated in call order
SentFor(uuid) ==
    ConcatAll(MapSeq(CallsFor("update_patterns", uuid), LAMBDA c : c.body.patterns))

\* case-insensitive comparison of a severity with a lower-case word
UpperOf ==
    [c \in {"f", "i", "m", "n", "o", "r"} |->
        CASE c = "f" -> "F" [] c = "i" -> "I" [] c = "m" -> "M"
          [] c = "n" -> "N" [] c = "o" -> "O" [] c = "r" -> "R"]

SameIgnoringCase(sev, word) ==
    /\ Len(sev) = Len(word)
    /\ \A k \in 1..Len(word) : sev[k] = word[k] \/ sev[k] = UpperOf[word[k]]

LowSeverity(pattern) ==
    /\ "patternDefinition" \in DOMAIN pattern
    /\ "severityLevel" \in DOMAIN pattern.patternDefinition
    /\ \/ SameIgnoringCase(pattern.patternDefinition.severityLevel, <<"i", "n", "f", "o">>)
       \/ SameIgnoringCase(pattern.patternDefinition.severityLevel, <<"m", "i", "n", "o", "r">>)

IdOf(pattern) ==
    IF "patternDefinition" \in DOMAIN pattern /\ "id" \in DOMAIN pattern.patternDefinition
    THEN pattern.patternDefinition.id
    ELSE None

\* the disable list the specification asks for, given the fetched patterns
DisableList(ps) ==
    MapSeq(SelectSeq(ps, LowSeverity), LAMBDA p : [id |-> IdOf(p), enabled |-> FALSE])

IsPrefix(a, b) == Len(a) <= Len(b) /\ a = SubSeq(b, 1, Len(a))

CeilDiv(n, d) == (n + d - 1) \div d

-----------------------------------------------------------------------------
\* C1: in dry-run mode no request to a mutating endpoint is ever issued; every
\* request of the run is a read (get_available_tools or get_patterns).
C1_DryRunOnlyReads ==
    dry_run => \A k \in DOMAIN calls : calls[k].op \in ReadOps /\ calls[k].op \notin MutatingOps

\* a finished dry run that read the catalog and pattern pages holding more
\* low-severity patterns than one batch
C1_Witness ==
    /\ dry_run
    /\ pc = "done"
    /\ exit_code = 0
    /\ \E k \in DOMAIN calls : calls[k].op = "get_available_tools"
    /\ \E k \in CompleteTools :
          /\ FetchReturned(tools[k].uuid)
          /\ Len(DisableList(FetchedFor(tools[k].uuid))) > BATCH_SIZE

\* C2: once a tool's processing has ended in a non-dry run with every request
\* succeeding, the update_patterns requests for it number ceil(N/500) for the N
\* patterns selected for disabling, none carries more than 500 entries, the
\* sizes add up to N, and the batches concatenated in call order are the
\* disable list.
C2_Batches ==
    \A k \in CompleteTools :
        LET uuid == tools[k].uuid
            updates == CallsFor("update_patterns", uuid)
            list == DisableList(FetchedFor(uuid))
            sizes == MapSeq(updates, LAMBDA c : Len(c.body.patterns))
        IN  (~dry_run /\ Finished(k) /\ FetchReturned(uuid) /\ AllOk(updates)) =>
                /\ Len(updates) = CeilDiv(Len(list), 500)
                /\ \A j \in DOMAIN sizes : sizes[j] <= 500
                /\ SumAll(sizes) = Len(list)
                /\ SentFor(uuid) = list

\* 1200 patterns selected: three requests of 500, 500 and 200 entries
C2_Witness ==
    \E k \in CompleteTools :
        LET updates == CallsFor("update_patterns", tools[k].uuid)
        IN  /\ ~dry_run
            /\ Finished(k)
            /\ AllOk(updates)
            /\ Len(DisableList(FetchedFor(tools[k].uuid))) = 1200
            /\ MapSeq(updates, LAMBDA c : Len(c.body.patterns)) = <<500, 500, 200>>

\* C3: get_patterns issues a further request exactly when the response just
\* received carries `cursor` in its pagination block, none after a response
\* without it (or without a pagination block), and so one request per page the
\* remote serves up to its first page without cursor.
C3_OneRequestPerPage ==
    /\ \A k \in DOMAIN calls :
          (calls[k].op = "get_patterns" /\ Ok(calls[k])) =>
              (RespHasCursor(calls[k]) <=>
                  IF k < Len(calls)
                  THEN /\ calls[k + 1].op = "get_patterns"
                       /\ calls[k + 1].tool_uuid = calls[k].tool_uuid
                  ELSE /\ pc = "fetch"
                       /\ served >= 1
                       /\ tools[tool_idx].uuid = calls[k].tool_uuid)
    /\ \A t \in CompleteTools :
          LET store == remote.patterns[tools[t].uuid]
              pages == CallsFor("get_patterns", tools[t].uuid)
          IN  /\ \A j \in DOMAIN pages : Ok(pages[j]) => pages[j].response = store[j]
              /\ FetchReturned(tools[t].uuid) =>
                    /\ IsLastPage(store[Len(pages)])
                    /\ \A j \in 1..(Len(pages) - 1) : ~IsLastPage(store[j])

\* a traversal of several pages that ended on a pagination block without cursor
C3_Witness ==
    \E t \in CompleteTools :
        LET pages == CallsFor("get_patterns", tools[t].uuid)
        IN  /\ FetchReturned(tools[t].uuid)
            /\ Len(pages) >= 2
            /\ "pagination" \in DOMAIN pages[Len(pages)].response
            /\ pc = "filter"

\* C4: what get_patterns returns is the concatenation, in request order, of the
\* `data` arrays of the responses it received (none for a response without
\* `data`); its length is the sum of the page lengths.
C4_Concatenation ==
    pc \in {"fetch", "filter"} =>
        LET pages == CallsFor("get_patterns", tools[tool_idx].uuid)
        IN  /\ patterns = ConcatAll(MapSeq(pages, RespData))
            /\ Len(patterns) = SumAll(MapSeq(pages, LAMBDA c : Len(RespData(c))))

\* get_patterns returned after two pages, the first of them without `data`
C4_Witness ==
    /\ pc = "filter"
    /\ LET pages == CallsFor("get_patterns", tools[tool_idx].uuid)
       IN  /\ Len(pages) = 2
           /\ "data" \notin DOMAIN pages[1].response
           /\ RespData(pages[2]) = DataB
    /\ patterns = DataB

\* C5: the patterns selected for disabling are exactly the fetched patterns
\* whose severityLevel is `info` or `minor` whatever the case of its letters;
\* every entry sent by update_patterns is {id, enabled: false} of a selected
\* pattern, and the entries keep the fetched order.
C5_Filter ==
    /\ pc = "update" => patterns_to_update = DisableList(patterns)
    /\ \A k \in CompleteTools :
          IsPrefix(SentFor(tools[k].uuid), DisableList(FetchedFor(tools[k].uuid)))

\* `Minor` and `MINOR` selected, `major`, `critical`, `minors` and a missing
\* severity not, and the batch sent
C5_Witness ==
    /\ pc = "promote"
    /\ CompleteTools = {1}
    /\ FetchedFor(tools[1].uuid) = DataA \o DataB
    /\ SentFor(tools[1].uuid) =
          <<[id |-> "a1", enabled |-> FALSE], [id |-> "a3", enabled |-> FALSE],
            [id |-> "b3", enabled |-> FALSE]>>

TopLevelOps ==
    {"create_coding_standard", "get_available_tools", "promote_draft", "set_default"}

HasCall(op) == \E k \in DOMAIN calls : calls[k].op = op
HasOkCall(op) == \E k \in DOMAIN calls : calls[k].op = op /\ Ok(calls[k])

LastLogIs(level, msg) ==
    /\ logs # <<>>
    /\ logs[Len(logs)].level = level
    /\ logs[Len(logs)].msg = msg

\* the tool's enable, fetch and updates all went through
FullyProcessed(k) ==
    LET uuid == tools[k].uuid
    IN  /\ CallsFor("enable_tool", uuid) # <<>>
        /\ AllOk(CallsFor("enable_tool", uuid))
        /\ FetchReturned(uuid)
        /\ AllOk(CallsFor("update_patterns", uuid))
        /\ SentFor(uuid) = DisableList(FetchedFor(uuid))

\* some request made for the tool failed
FailedTool(k) ==
    \E j \in DOMAIN calls :
        calls[j].op \in ToolOps /\ calls[j].tool_uuid = tools[k].uuid /\ ~Ok(calls[j])

\* C6: a failure inside one tool's processing stops neither the loop nor the
\* workflow: once the catalog is in, the run ends only after every tool has had
\* its turn; every complete tool is enabled, an enabled tool has its patterns
\* fetched, a fetched tool with patterns to disable has them sent; and
\* promote_draft, then set_default, follow the last tool.
C6_LaterToolsProcessed ==
    /\ (LoopOver /\ tools # <<>>) => tool_idx = Len(tools)
    /\ \A k \in CompleteTools :
          LET uuid == tools[k].uuid
          IN  Finished(k) =>
                /\ ~dry_run => CallsFor("enable_tool", uuid) # <<>>
                /\ (dry_run \/ AllOk(CallsFor("enable_tool", uuid))) =>
                      CallsFor("get_patterns", uuid) # <<>>
                /\ (~dry_run /\ FetchReturned(uuid) /\ DisableList(FetchedFor(uuid)) # <<>>) =>
                      CallsFor("update_patterns", uuid) # <<>>
    /\ (~dry_run /\ tools # <<>> /\ pc \in {"set_default", "done"}) => HasCall("promote_draft")
    /\ (~dry_run /\ tools # <<>> /\ pc = "done" /\ HasOkCall("promote_draft")) =>
          HasCall("set_default")

\* three tools, the second one's enable_tool fails; the first and the third are
\* fully processed and the standard is promoted and made the default
C6_Witness ==
    /\ ~dry_run
    /\ pc = "done"
    /\ exit_code = 0
    /\ CompleteTools = {1, 2, 3}
    /\ ~AllOk(CallsFor("enable_tool", tools[2].uuid))
    /\ FullyProcessed(1) /\ SentFor(tools[1].uuid) # <<>>
    /\ FullyProcessed(3) /\ SentFor(tools[3].uuid) # <<>>
    /\ HasOkCall("promote_draft")
    /\ HasOkCall("set_default")

\* C7: a failed create_coding_standard, get_available_tools, promote_draft or
\* set_default request is the last request of the run; the failure is logged
\* and the process has exited with status 1.
C7_TopLevelFailureAborts ==
    \A k \in DOMAIN calls :
        (calls[k].op \in TopLevelOps /\ ~Ok(calls[k])) =>
            /\ k = Len(calls)
            /\ pc = "done"
            /\ exit_code = 1
            /\ LastLogIs("ERROR", "Failed to create coding standard")

\* promote_draft fails after a tool was enabled and updated: no set_default
C7_Witness ==
    /\ calls # <<>>
    /\ calls[Len(calls)].op = "promote_draft"
    /\ ~Ok(calls[Len(calls)])
    /\ HasOkCall("update_patterns")
    /\ ~HasCall("set_default")
    /\ exit_code = 1

\* the place of a request in the workflow
ToolIndex(uuid) ==
    CHOOSE k \in DOMAIN tools : "uuid" \in DOMAIN tools[k] /\ tools[k].uuid = uuid

Rank(c) ==
    CASE c.op = "create_coding_standard" -> 0
      [] c.op = "get_available_tools" -> 1
      [] c.op = "enable_tool" -> 10 * ToolIndex(c.tool_uuid)
      [] c.op = "get_patterns" -> 10 * ToolIndex(c.tool_uuid) + 1
      [] c.op = "update_patterns" -> 10 * ToolIndex(c.tool_uuid) + 2
      [] c.op = "promote_draft" -> 10 * (Len(tools) + 1)
      [] c.op = "set_default" -> 10 * (Len(tools) + 1) + 1

Repeatable(c) == c.op \in {"get_patterns", "update_patterns"}

\* C8: in a non-dry-run run the requests come in workflow order:
\* create_coding_standard first and once, get_available_tools second and once,
\* then tool by tool in catalog order enable_tool once, the get_patterns
\* requests, the update_patterns requests, then promote_draft at most once and
\* set_default at most once, promote_draft only after every tool had its turn;
\* and every request after the catalog carries the id the create call returned.
C8_LinearOrder ==
    ~dry_run =>
        /\ calls # <<>> => calls[1].op = "create_coding_standard"
        /\ Len(calls) >= 2 => calls[2].op = "get_available_tools"
        /\ \A k \in 1..(Len(calls) - 1) :
              \/ Rank(calls[k]) < Rank(calls[k + 1])
              \/ /\ Rank(calls[k]) = Rank(calls[k + 1])
                 /\ Repeatable(calls[k])
        /\ HasCall("promote_draft") =>
              \A t \in CompleteTools : CallsFor("enable_tool", tools[t].uuid) # <<>>
        /\ \A k \in DOMAIN calls :
              calls[k].op \notin {"create_coding_standard", "get_available_tools"} =>
                  /\ "id" \in DOMAIN calls[1].response.data
                  /\ calls[k].standard_id = calls[1].response.data.id

\* a full run over two tools, one of them read in two pages
C8_Witness ==
    /\ ~dry_run
    /\ pc = "done"
    /\ HasOkCall("set_default")
    /\ CompleteTools = {1, 2}
    /\ FullyProcessed(1) /\ SentFor(tools[1].uuid) # <<>>
    /\ FullyProcessed(2) /\ Len(CallsFor("get_patterns", tools[2].uuid)) = 2

\* C9: when get_available_tools returns an empty catalog the workflow logs a
\* warning and ends without error: nothing is logged at ERROR, the exit status
\* is 0, and no enable_tool, get_patterns or update_patterns request is made.
C9_EmptyCatalog ==
    \A k \in DOMAIN calls :
        (calls[k].op = "get_available_tools" /\ Ok(calls[k]) /\ RespData(calls[k]) = <<>>) =>
            /\ k = Len(calls)
            /\ pc = "done"
            /\ exit_code = 0
            /\ LastLogIs("WARNING", "No tools found")
            /\ \A j \in DOMAIN logs : logs[j].level # "ERROR"
            /\ \A j \in DOMAIN calls : calls[j].op \notin ToolOps

\* a non-dry-run run whose catalog request succeeded with an empty `data`
C9_Witness ==
    /\ ~dry_run
    /\ Len(calls) = 2
    /\ calls[2].op = "get_available_tools"
    /\ Ok(calls[2])
    /\ "data" \in DOMAIN calls[2].response
    /\ calls[2].response.data = <<>>

\* the configuration was loaded: the workflow has started
Loaded == DOMAIN settings # {}

\* a failure that the per-tool handler does not catch
Escaped ==
    \E k \in DOMAIN calls :
        \/ calls[k].op \in TopLevelOps /\ ~Ok(calls[k])
        \/ /\ calls[k].op = "create_coding_standard"
           /\ Ok(calls[k])
           /\ \/ "data" \notin DOMAIN calls[k].response
              \/ "id" \notin DOMAIN calls[k].response.data
              \/ calls[k].response.data.id = ""

\* C10: the process has an exit status only once the run is over; it is 1
\* exactly when a failure escaped the per-tool handling, and 0 in every other
\* run, whatever failed inside the tool loop.
C10_ExitCode ==
    /\ pc # "done" => exit_code = -1
    /\ pc = "done" => exit_code \in {0, 1}
    /\ (pc = "done" /\ Loaded) => (exit_code = 1 <=> Escaped)

\* every tool of the catalog failed inside the loop and the run still ends with 0
C10_Witness ==
    /\ ~dry_run
    /\ pc = "done"
    /\ exit_code = 0
    /\ CompleteTools = {1, 2, 3}
    /\ \A k \in CompleteTools : FailedTool(k)

\* C11: every enable_tool and every update_patterns request is followed by the
\* fixed delay of 2 before the call returns, and so before the next request of
\* the run, whether the request succeeded or failed.
C11_DelayAfterEveryMutation ==
    \A k \in DOMAIN calls :
        calls[k].op \in {"enable_tool", "update_patterns"} => calls[k].slept = 2

-----------------------------------------------------------------------------
\* the messages logged outside dry-run reporting; any other line is a [DRY RUN] line
PlainMsgs ==
    {"Creating new coding standard", "Created coding standard with ID",
     "Fetching available tools...", "No tools found",
     "Skipping tool with incomplete data", "Processing tool", "Enabled tool",
     "Disabled minor patterns", "Error processing tool",
     "Promoting coding standard...", "Setting as default coding standard...",
     "Successfully created and configured coding standard",
     "Failed to create coding standard", "API request failed", "Response"}

DryRunLines == SelectSeq(logs, LAMBDA l : l.msg \notin PlainMsgs)

LogArgs(msg) == MapSeq(SelectSeq(logs, LAMBDA l : l.msg = msg), LAMBDA l : l.arg)

\* the loop body has run, or is running, for the tool
Started(k) == k < tool_idx \/ (k = tool_idx /\ pc # "tool")

\* per catalog entry, in catalog order, what F gives for the complete tools
\* that satisfy P and nothing for the others
PerTool(P(_), F(_)) ==
    ConcatAll(MapSeq([k \in DOMAIN tools |-> k],
                     LAMBDA k : IF k \in CompleteTools /\ P(k) THEN F(k) ELSE <<>>))

DisabledIds(k) == MapSeq(DisableList(FetchedFor(tools[k].uuid)), LAMBDA e : e.id)

Filtered(k) == Finished(k) /\ FetchReturned(tools[k].uuid)

\* C12 (as amended): a dry run logs one [DRY RUN] line for the create, one for
\* each complete tool it reaches, and one for each pattern selected for
\* disabling of each tool whose patterns were fetched; it logs no other
\* [DRY RUN] line, none for promote or set-default; a run that is not a dry run
\* logs none at all.
C12_DryRunLines ==
    /\ ~dry_run => DryRunLines = <<>>
    /\ (dry_run /\ Loaded /\ pc # "create") =>
          /\ LogArgs("[DRY RUN] Would create new coding standard") = <<"">>
          /\ LogArgs("[DRY RUN] Would enable tool") =
                PerTool(Started, LAMBDA k : <<tools[k].name>>)
          /\ LogArgs("[DRY RUN] Would disable pattern") = PerTool(Filtered, DisabledIds)
          /\ Len(DryRunLines) =
                1 + Len(PerTool(Started, LAMBDA k : <<k>>)) + Len(PerTool(Filtered, DisabledIds))

\* a finished dry run over two tools, three patterns selected in each
C12_Witness ==
    /\ dry_run
    /\ pc = "done"
    /\ exit_code = 0
    /\ CompleteTools = {1, 2}
    /\ Filtered(1) /\ Filtered(2)
    /\ Len(LogArgs("[DRY RUN] Would disable pattern")) = 6

\* C12 (as claimed): a dry run that meets no failure logs as many [DRY RUN]
\* lines as a run on the same inputs would issue mutating requests: the create,
\* one enable per tool, ceil(N/500) updates per tool, the promote and the
\* set-default.
C12_OneLinePerMutatingCall ==
    (dry_run /\ pc = "done" /\ exit_code = 0 /\ tools # <<>> /\ \A k \in DOMAIN calls : Ok(calls[k])) =>
        Len(DryRunLines) =
            1 + Cardinality(CompleteTools)
              + SumAll(PerTool(Filtered, LAMBDA k : <<CeilDiv(Len(DisabledIds(k)), 500)>>))
              + 2

-----------------------------------------------------------------------------
CreatedWithoutId(c) ==
    /\ c.op = "create_coding_standard"
    /\ Ok(c)
    /\ \/ "data" \notin DOMAIN c.response
       \/ "id" \notin DOMAIN c.response.data
       \/ c.response.data.id = ""

\* C13: when the create_coding_standard response carries no id, or an empty
\* one, that request is the only request of the run: the failure is logged and
\* the process exits with status 1.
C13_MissingIdAborts ==
    \A k \in DOMAIN calls :
        CreatedWithoutId(calls[k]) =>
            /\ Len(calls) = 1
            /\ pc = "done"
            /\ exit_code = 1
            /\ LastLogIs("ERROR", "Failed to create coding standard")

\* the create call answered with an empty id
C13_Witness ==
    /\ ~dry_run
    /\ Len(calls) = 1
    /\ Ok(calls[1])
    /\ "data" \in DOMAIN calls[1].response
    /\ "id" \in DOMAIN calls[1].response.data
    /\ calls[1].response.data.id = ""
    /\ exit_code = 1

-----------------------------------------------------------------------------
Unset(key) == key \notin DOMAIN env

OptionalDefaults ==
    /\ settings.api_url = (IF Unset("CODACY_API_URL") THEN "https://app.codacy.com"
                           ELSE env["CODACY_API_URL"])
    /\ settings.log_level = (IF Unset("LOG_LEVEL") THEN "INFO" ELSE env["LOG_LEVEL"])

NeverStarted ==
    /\ ~Loaded
    /\ pc = "done"
    /\ exit_code = 1
    /\ calls = <<>>

\* C14 (as amended): when a required setting is unset or set to the empty
\* string, loading the configuration fails at startup: the process exits with
\* status 1 and no request is ever issued.  When all three are set to non-empty
\* values, loading succeeds: the settings hold those values, and each optional
\* setting holds its default if unset and the value it was set to otherwise.
C14_Settings ==
    /\ pc = "load" => ~Loaded /\ calls = <<>>
    /\ pc # "load" =>
          IF \E key \in RequiredKeys : Unset(key) \/ env[key] = ""
          THEN NeverStarted /\ logs = <<>>
          ELSE /\ Loaded
               /\ settings.api_token = env["CODACY_API_TOKEN"]
               /\ settings.org_name = env["CODACY_ORG_NAME"]
               /\ settings.provider = env["CODACY_PROVIDER"]
               /\ OptionalDefaults

\* startup with the provider set to the empty string and the rest in place
C14_Witness ==
    /\ \A key \in RequiredKeys : ~Unset(key)
    /\ env["CODACY_PROVIDER"] = ""
    /\ env["CODACY_API_TOKEN"] # "" /\ env["CODACY_ORG_NAME"] # ""
    /\ NeverStarted

\* C14 (as claimed): when a required setting is absent the process stops at
\* startup without a request; when all three are present loading succeeds and
\* the optional settings take their defaults if unset.
C14_PresentLoads ==
    pc # "load" =>
        IF \E key \in RequiredKeys : Unset(key)
        THEN NeverStarted
        ELSE Loaded /\ OptionalDefaults

-----------------------------------------------------------------------------
\* C15: in get_patterns the first request carries no cursor parameter, and
\* every later request carries as cursor the value of pagination.cursor of the
\* response just before it, whatever that value is, the empty string included.
C15_CursorCarried ==
    \A t \in CompleteTools :
        LET pages == CallsFor("get_patterns", tools[t].uuid)
        IN  /\ pages # <<>> => "cursor" \notin DOMAIN pages[1].params
            /\ \A k \in 2..Len(pages) :
                  /\ "cursor" \in DOMAIN pages[k].params
                  /\ pages[k].params.cursor = pages[k - 1].response.pagination.cursor

-----------------------------------------------------------------------------
ErrorRecords == {j \in DOMAIN logs : logs[j].level = "ERROR"}
ErrorsWith(msg) == {j \in ErrorRecords : logs[j].msg = msg}
FailedCalls == {k \in DOMAIN calls : ~Ok(calls[k])}

EnableFailed(k) ==
    \E j \in FailedCalls : calls[j].op = "enable_tool" /\ calls[j].tool_uuid = tools[k].uuid

\* C16 (as amended): a failed request inside a tool's processing, its
\* enable_tool call included, is logged at ERROR level twice or three times:
\* _make_request logs "API request failed", and "Response" too when the error
\* response has a JSON body, and then the loop logs exactly one "Error
\* processing tool" record naming the tool.  A tool none of whose requests
\* failed has no "Error processing tool" record, and a run without a failed
\* request has no ERROR record unless it aborted.
C16_ErrorLines ==
    LET perTool == ErrorsWith("Error processing tool")
        failed == {k \in CompleteTools : FailedTool(k)}
        http == {k \in FailedCalls : calls[k].result = "http"}
    IN  /\ \A k \in CompleteTools :
              Cardinality({j \in perTool : logs[j].arg = tools[k].name})
                  = IF k \in failed THEN 1 ELSE 0
        /\ \A j \in perTool :
              /\ j - 1 \in ErrorRecords
              /\ logs[j - 1].msg \in {"API request failed", "Response"}
        /\ Cardinality(ErrorsWith("API request failed")) = Cardinality(FailedCalls)
        /\ Cardinality(ErrorsWith("Response")) = Cardinality(http)
        /\ Cardinality(ErrorRecords) =
              Cardinality(FailedCalls) + Cardinality(http) + Cardinality(failed)
                + Cardinality(ErrorsWith("Failed to create coding standard"))

\* three tools, the second one's enable_tool fails with an HTTP error: three
\* ERROR records, the other two tools fully processed
C16_Witness ==
    /\ pc = "done"
    /\ exit_code = 0
    /\ CompleteTools = {1, 2, 3}
    /\ FullyProcessed(1) /\ FullyProcessed(3)
    /\ EnableFailed(2)
    /\ Cardinality(FailedCalls) = 1
    /\ Cardinality(ErrorRecords) = 3

\* C16 (as claimed): when the only failures of a run are failed enable_tool
\* calls, the run logs exactly one error for each tool whose enable_tool call
\* failed, and no other error.
C16_OneErrorPerFailedEnable ==
    (/\ Loaded
     /\ \A k \in FailedCalls : calls[k].op = "enable_tool"
     /\ ~Escaped) =>
        Cardinality(ErrorRecords) = Cardinality({k \in CompleteTools : EnableFailed(k)})

-----------------------------------------------------------------------------
LastCall == calls[Len(calls)]

\* C17: a failed request inside a tool's processing is the last request made
\* for that tool: no get_patterns or update_patterns follows a failed
\* enable_tool, no further page and no update_patterns follows a failed page
\* request, no later batch follows a failed batch; and the pages and the
\* disable list collected for the tool are gone with the failure.
C17_FailureEndsTool ==
    /\ \A j \in FailedCalls :
          calls[j].op \in ToolOps =>
              \A m \in DOMAIN calls :
                  (m > j /\ calls[m].op \in ToolOps) => calls[m].tool_uuid # calls[j].tool_uuid
    /\ (calls # <<>> /\ ~Ok(LastCall) /\ LastCall.op \in ToolOps) =>
          /\ patterns = <<>>
          /\ patterns_to_update = <<>>
          /\ pc \in {"fetch", "filter", "update"} => tools[tool_idx].uuid # LastCall.tool_uuid

\* the request for the second page of the first tool failed after a first page
\* with patterns to disable; the run went on to enable the second tool
C17_Witness ==
    /\ ~dry_run
    /\ Len(calls) = 6
    /\ calls[4].op = "get_patterns" /\ Ok(calls[4])
    /\ DisableList(RespData(calls[4])) # <<>>
    /\ calls[5].op = "get_patterns" /\ ~Ok(calls[5])
    /\ calls[5].tool_uuid = calls[4].tool_uuid
    /\ calls[6].op = "enable_tool" /\ Ok(calls[6])
    /\ calls[6].tool_uuid # calls[5].tool_uuid

-----------------------------------------------------------------------------
IncompleteTools == DOMAIN tools \ CompleteTools

SkipWarnings ==
    {j \in DOMAIN logs :
        logs[j].level = "WARNING" /\ logs[j].msg = "Skipping tool with incomplete data"}

\* the run has made a request for the tool (read its patterns, in a dry run)
Reached(k) ==
    IF dry_run THEN CallsFor("get_patterns", tools[k].uuid) # <<>>
               ELSE CallsFor("enable_tool", tools[k].uuid) # <<>>

\* C18: a catalog entry without a uuid or without a name is skipped with one
\* warning: no enable_tool, get_patterns or update_patterns request is ever
\* made for it, no error is logged for it, and the loop goes on to every other
\* tool of the catalog.
C18_IncompleteSkipped ==
    /\ \A k \in IncompleteTools :
          /\ \A j \in DOMAIN calls :
                calls[j].op \in ToolOps => calls[j].tool_uuid # Get(tools[k], "uuid", None)
          /\ \A j \in ErrorsWith("Error processing tool") :
                logs[j].arg # Get(tools[k], "name", None)
    /\ Cardinality(SkipWarnings) = Cardinality({k \in IncompleteTools : Started(k)})
    /\ Cardinality(ErrorsWith("Error processing tool")) <= Cardinality(CompleteTools)
    /\ LoopOver => \A k \in CompleteTools : Reached(k)

\* a catalog of an entry without uuid, an entry without name and a complete
\* tool: two warnings, no error, the third tool fully processed
C18_Witness ==
    /\ ~dry_run
    /\ pc = "done"
    /\ exit_code = 0
    /\ Len(tools) = 3
    /\ "uuid" \notin DOMAIN tools[1]
    /\ "name" \notin DOMAIN tools[2]
    /\ CompleteTools = {3}
    /\ FullyProcessed(3)
    /\ Cardinality(SkipWarnings) = 2
    /\ ErrorRecords = {}

====
